---- MODULE Spec2Model ----
(***************************************************************************)
(* Navai: path search (src/src/astar.py), incident ingestion               *)
(* (src/src/tomtom_incidents_ingest.py, src/src/twitter_incidents_ingest.py)*)
(* and the road graph builder (src/src/datalink_pipeline.py), modelled as  *)
(* state machines.                                                         *)
(*                                                                         *)
(*   Spec      a_star over graphs with finite non-negative weights         *)
(*   SpecABC   a_star over the three-edge A,B,C graph, rows in any order   *)
(*   SpecBad   a_star over graphs whose weights may be negative or NaN     *)
(*   SpecLive  a_star under weak fairness, weights 0 and 1                 *)
(*   SpecStale a_star over larger graphs, weights 0 and 5                  *)
(*   SpecInf   a_star over graphs in which edges may cost +infinity        *)
(*   SpecInc   the two incident applicators over an edge table             *)
(*   SpecStep  the two incident applicators, one statement per step        *)
(*   SpecNear  find_nearest_node over the node table of an edge table      *)
(*   SpecBuild run_pipeline: ways to segment rows to DiGraph to csv rows   *)
(*   SpecStage the two ingest programs run one after the other over the    *)
(*             csv files they share                                        *)
(***************************************************************************)
EXTENDS Integers, Sequences, FiniteSets, TLC

VARIABLES
    df,         \* astar.py: rows (from_node, to_node, predicted weight)
    graph,      \* astar.py: adjacency dict, from_node -> list of (end, weight)
    start,      \* a_star argument
    goal,       \* a_star argument
    pc,         \* position inside a_star: "call", "loop", "done", "diverged"
    open_set,   \* heap of (f, node) entries, kept in pop order
    came_from,  \* dict node -> predecessor
    g_score,    \* dict node -> best known cost
    f_score,    \* dict node -> g + heuristic
    path,       \* returned path
    total,      \* returned total cost
    pops,       \* number of heappop calls made so far
    lastPop,    \* what the last loop iteration popped and did
    segs,       \* ingest: edge table rows with the three block flags
    setBy,      \* ingest: per row, the flags earlier applications were meant to set
    lastApp,    \* ingest: the last incident application
    pend,       \* ingest: the apply_incident_to_segments call in progress
    query,      \* ingest: the (lat, lon) find_nearest_node is asked about
    nearest,    \* ingest: what find_nearest_node returned
    ways,       \* builder: the parsed ways (id, tags, coordinates)
    df_segments,\* builder: the rows ways_to_segments_df produced
    G,          \* builder: the networkx DiGraph (nodes and edges with attributes)
    csv,        \* builder: the rows export_graph_edges_to_csv wrote
    bpc,        \* builder: position inside run_pipeline (line, loop index)
    files,      \* datalink_output/: the csv files the stages read and write
    TOMTOM_API_KEY, \* tomtom_incidents_ingest.py: the configured key
    run         \* staged run: the program to run next and how the earlier ones ended

vars == <<df, graph, start, goal, pc, open_set, came_from, g_score, f_score,
          path, total, pops, lastPop, segs, setBy, lastApp, pend, query, nearest,
          ways, df_segments, G, csv, bpc, files, TOMTOM_API_KEY, run>>

astarVars == <<df, graph, start, goal, pc, open_set, came_from, g_score,
               f_score, path, total, pops, lastPop>>

ingestVars == <<segs, setBy, lastApp>>

nearVars == <<query, nearest>>

buildVars == <<ways, df_segments, G, csv, bpc>>

stageVars == <<files, TOMTOM_API_KEY, run>>

\* What a step of a_star leaves alone, and what an incident application does.
nonSearchVars == <<ingestVars, pend, nearVars, buildVars, stageVars>>

nonIncVars == <<astarVars, pend, nearVars, buildVars, stageVars>>

----------------------------------------------------------------------------
(* Bounds *)

MaxEdges == 3       \* rows of the edge table fed to a_star
MaxBadEdges == 2    \* rows of the edge table in SpecBad
MaxPops == 4        \* heappop calls followed in SpecBad (negative cycles never end)
MaxStaleEdges == 4  \* rows of the edge table in SpecStale
MaxLiveEdges == 2   \* rows of the edge table in SpecLive
MaxLivePops == 8    \* heappop calls followed in SpecLive (never reached by the code)
MaxCoords == 3      \* coordinates of one way fed to the graph builder
MaxSegs == 2        \* rows of the edge table the incidents are applied to
MaxIncidents == 1   \* incidents of one TomTom response, tweets of one fetch

----------------------------------------------------------------------------
(* Values *)

Nodes == {"A", "B", "C"}
Absent == "Z"                   \* a node id that is in no row
None == "None"                  \* Python None inside the returned list
NoPath == <<None>>              \* astar.py returns [None], 0
Inf == 999                      \* float('inf')
NaN == -999                     \* float('nan')

Unset == "unset"                \* no value returned yet
NoCall == [line |-> "idle"]     \* no apply_incident_to_segments call in progress

\* Python orders the node ids as strings.
Ord(n) == CASE n = "A" -> 1 [] n = "B" -> 2 [] n = "C" -> 3 [] OTHER -> 4

\* IEEE addition and comparison on the values that occur (finite, +inf, nan).
FAdd(a, b) == IF a = NaN \/ b = NaN THEN NaN
              ELSE IF a = Inf \/ b = Inf THEN Inf
              ELSE a + b

\* Mutant: the comparison also holds for equal values.
FLessOrEqual(a, b) == a # NaN /\ b # NaN /\ a <= b

FLess(a, b) == a # NaN /\ b # NaN /\ a < b

EmptyMap == [n \in {} |-> 0]

\* nx.DiGraph(): nodes and edges, each kept in insertion order.
EmptyGraph == [nodes |-> <<>>, edges |-> <<>>]

Put(d, k, v) == [n \in (DOMAIN d) \cup {k} |-> IF n = k THEN v ELSE d[n]]

\* dict.get(k, default)
Get(d, k, default) == IF k \in DOMAIN d THEN d[k] ELSE default

----------------------------------------------------------------------------
(* astar.py: graph construction, lines 18-29 *)

\* Mutant: the row is entered in both directions.
AddRowUndirected(g, row) ==
    LET fwd == IF row.from_node \in DOMAIN g
               THEN [g EXCEPT ![row.from_node] = Append(@, <<row.to_node, row.weight>>)]
               ELSE Put(g, row.from_node, << <<row.to_node, row.weight>> >>)
    IN  IF row.to_node \in DOMAIN fwd
        THEN [fwd EXCEPT ![row.to_node] = Append(@, <<row.from_node, row.weight>>)]
        ELSE Put(fwd, row.to_node, << <<row.from_node, row.weight>> >>)

\* One iteration of the loop over the rows: append (end, weight) under start.
AddRow(g, row) ==
    IF row.from_node \in DOMAIN g
    THEN [g EXCEPT ![row.from_node] = Append(@, <<row.to_node, row.weight>>)]
    ELSE Put(g, row.from_node, << <<row.to_node, row.weight>> >>)

RECURSIVE BuildFrom(_, _, _)
BuildFrom(rows, i, g) ==
    IF i > Len(rows) THEN g ELSE BuildFrom(rows, i + 1, AddRow(g, rows[i]))

BuildGraph(rows) == BuildFrom(rows, 1, EmptyMap)

\* Every node id that occurs in some row, as from_node or as to_node.
NodeSet(rows) == {rows[i].from_node : i \in 1..Len(rows)}
                 \cup {rows[i].to_node : i \in 1..Len(rows)}

----------------------------------------------------------------------------
(* astar.py: heuristic and heap *)

heuristic(node1, node2) == 0

\* Python compares the (f, node) tuples: by f unless the f are equal, then by node.
EntryLess(x, y) == IF x[1] = y[1] THEN Ord(x[2]) < Ord(y[2]) ELSE FLess(x[1], y[1])

\* Mutant: a plain queue, entries are returned in the order they were pushed.
HeapPushBack(h, e) == Append(h, e)

\* heapq.heappush: the heap is kept as the sequence in which heappop returns it.
HeapPush(h, e) ==
    LET k == Cardinality({i \in 1..Len(h) : ~EntryLess(e, h[i])})
    IN  SubSeq(h, 1, k) \o <<e>> \o SubSeq(h, k + 1, Len(h))

----------------------------------------------------------------------------
(* astar.py: a_star, lines 36-66 *)

\* Mutant: only start is tested.
InvalidNodesStartOnly(g, s, t) == s \notin DOMAIN g

\* Line 37: the test that sends a_star to the "Invalid nodes" return.
InvalidNodes(g, s, t) == s \notin DOMAIN g \/ t \notin DOMAIN g

\* Mutant: a neighbor is relaxed only the first time it is seen.
RelaxEdgeFirstSeen(st, current, target, edge) ==
    LET neighbor == edge[1]
        weight == edge[2]
        tentative_g == FAdd(st.g_score[current], weight)
    IN  IF Get(st.g_score, neighbor, Inf) = Inf /\ tentative_g # Inf
        THEN LET f == FAdd(tentative_g, heuristic(neighbor, target))
             IN  [came_from |-> Put(st.came_from, neighbor, current),
                  g_score   |-> Put(st.g_score, neighbor, tentative_g),
                  f_score   |-> Put(st.f_score, neighbor, f),
                  open_set  |-> HeapPush(st.open_set, <<f, neighbor>>)]
        ELSE st

\* Lines 59-64: relaxation of one outgoing edge of current.
RelaxEdge(st, current, target, edge) ==
    LET neighbor == edge[1]
        weight == edge[2]
        tentative_g == FAdd(st.g_score[current], weight)
    IN  IF FLess(tentative_g, Get(st.g_score, neighbor, Inf))
        THEN LET f == FAdd(tentative_g, heuristic(neighbor, target))
             IN  [came_from |-> Put(st.came_from, neighbor, current),
                  g_score   |-> Put(st.g_score, neighbor, tentative_g),
                  f_score   |-> Put(st.f_score, neighbor, f),
                  open_set  |-> HeapPush(st.open_set, <<f, neighbor>>)]
        ELSE st

\* Line 58: the for loop over graph.get(current, []).
RECURSIVE RelaxAll(_, _, _, _, _)
RelaxAll(st, current, target, edges, i) ==
    IF i > Len(edges) THEN st
    ELSE RelaxAll(RelaxEdge(st, current, target, edges[i]), current, target, edges, i + 1)

\* Lines 51-54: path = [current]; while current in came_from: append predecessor.
RECURSIVE Walk(_, _, _)
Walk(cf, current, fuel) ==
    IF current \in DOMAIN cf /\ fuel > 0
    THEN <<current>> \o Walk(cf, cf[current], fuel - 1)
    ELSE <<current>>

\* The while loop of lines 52-54 ends iff the predecessor chain leaves came_from.
RECURSIVE WalkEnds(_, _, _)
WalkEnds(cf, current, fuel) ==
    IF current \notin DOMAIN cf THEN TRUE
    ELSE IF fuel = 0 THEN FALSE
    ELSE WalkEnds(cf, cf[current], fuel - 1)

Reverse(s) == [i \in 1..Len(s) |-> s[Len(s) + 1 - i]]

\* Mutant: the predecessor walk stops after one step.
ReconstructPathOneStep(cf, current) == Reverse(Walk(cf, current, 1))

\* Lines 51-55.
ReconstructPath(cf, current) == Reverse(Walk(cf, current, Cardinality(DOMAIN cf)))

NoPop == [f |-> 0, node |-> None, g |-> 0, kind |-> "none"]

\* Lines 37-38: return [None], 0.
ReturnInvalid ==
    /\ pc = "call"
    /\ InvalidNodes(graph, start, goal)
    /\ path' = NoPath
    /\ total' = 0
    /\ pc' = "done"
    /\ UNCHANGED <<df, graph, start, goal, open_set, came_from, g_score, f_score,
                   pops, lastPop>>

\* Lines 40-46.
Begin ==
    /\ pc = "call"
    /\ ~InvalidNodes(graph, start, goal)
    /\ open_set' = << <<0, start>> >>
    /\ came_from' = EmptyMap
    /\ g_score' = [node \in DOMAIN graph |-> IF node = start THEN 0 ELSE Inf]
    /\ f_score' = [node \in DOMAIN graph |-> IF node = start THEN 0 ELSE Inf]
    /\ pc' = "loop"
    /\ UNCHANGED <<df, graph, start, goal, path, total, pops, lastPop>>

\* Lines 48-56: the popped node is goal.
PopGoal ==
    /\ pc = "loop"
    /\ open_set # <<>>
    /\ LET current_f == Head(open_set)[1]
           current == Head(open_set)[2]
       IN  /\ current = goal
           /\ open_set' = Tail(open_set)
           /\ pops' = pops + 1
           /\ lastPop' = [f |-> current_f, node |-> current,
                          g |-> g_score[current], kind |-> "goal"]
           /\ IF WalkEnds(came_from, current, Cardinality(DOMAIN came_from))
              THEN /\ path' = ReconstructPath(came_from, current)
                   /\ total' = g_score[goal]
                   /\ pc' = "done"
              ELSE /\ pc' = "diverged"      \* the while of line 52 never exits
                   /\ UNCHANGED <<path, total>>
    /\ UNCHANGED <<df, graph, start, goal, came_from, g_score, f_score>>

\* Mutant: the edge list is read with graph.setdefault(current, []), which
\* enters a node without outgoing edges into the dict.
ExpandStepSetDefault ==
    /\ pc = "loop"
    /\ open_set # <<>>
    /\ LET current_f == Head(open_set)[1]
           current == Head(open_set)[2]
           st0 == [came_from |-> came_from, g_score |-> g_score,
                   f_score |-> f_score, open_set |-> Tail(open_set)]
           st1 == RelaxAll(st0, current, goal, Get(graph, current, <<>>), 1)
       IN  /\ current # goal
           /\ open_set' = st1.open_set
           /\ came_from' = st1.came_from
           /\ g_score' = st1.g_score
           /\ f_score' = st1.f_score
           /\ pops' = pops + 1
           /\ lastPop' = [f |-> current_f, node |-> current,
                          g |-> g_score[current], kind |-> "expand"]
    /\ graph' = IF Head(open_set)[2] \in DOMAIN graph THEN graph
                ELSE Put(graph, Head(open_set)[2], <<>>)
    /\ UNCHANGED <<df, start, goal, pc, path, total>>

\* Lines 48-49, 58-64: the popped node is not goal; relax its outgoing edges.
ExpandStep ==
    /\ pc = "loop"
    /\ open_set # <<>>
    /\ LET current_f == Head(open_set)[1]
           current == Head(open_set)[2]
           st0 == [came_from |-> came_from, g_score |-> g_score,
                   f_score |-> f_score, open_set |-> Tail(open_set)]
           st1 == RelaxAll(st0, current, goal, Get(graph, current, <<>>), 1)
       IN  /\ current # goal
           /\ open_set' = st1.open_set
           /\ came_from' = st1.came_from
           /\ g_score' = st1.g_score
           /\ f_score' = st1.f_score
           /\ pops' = pops + 1
           /\ lastPop' = [f |-> current_f, node |-> current,
                          g |-> g_score[current], kind |-> "expand"]
    /\ UNCHANGED <<df, graph, start, goal, pc, path, total>>

Expand == ExpandStep

\* Line 66: the frontier is empty.
Exhausted ==
    /\ pc = "loop"
    /\ open_set = <<>>
    /\ path' = NoPath
    /\ total' = 0
    /\ pc' = "done"
    /\ UNCHANGED <<df, graph, start, goal, open_set, came_from, g_score, f_score,
                   pops, lastPop>>

----------------------------------------------------------------------------
(* Specifications of the search *)

NodeSeq == <<"A", "B", "C">>
Weights == <<0, 1, 5>>          \* finite non-negative predictions
BadWeights == <<-1, 1, NaN>>    \* predictions that break the cost contract
LiveWeights == <<0, 1>>         \* finite non-negative predictions, zero included
StaleWeights == <<0, 5>>        \* two finite non-negative predictions
InfWeights == <<1, 5, Inf>>     \* predictions that may be +infinity (blocked edges)

\* The i-th row over the weights W, i in 0 .. 9 * Len(W) - 1.
RowAt(W, i) ==
    [from_node |-> NodeSeq[(i \div (3 * Len(W))) + 1],
     to_node   |-> NodeSeq[((i \div Len(W)) % 3) + 1],
     weight    |-> W[(i % Len(W)) + 1]]

\* Strictly increasing index sequences of length k over lo .. hi.
RECURSIVE Increasing(_, _, _)
Increasing(k, lo, hi) ==
    IF k = 0 THEN {<<>>}
    ELSE UNION {{<<i>> \o s : s \in Increasing(k - 1, i + 1, hi)} : i \in lo..hi}

\* Edge tables of at most n distinct rows, listed in index order or in the
\* opposite order (so that the rows of one from_node come in both orders).
Tables(W, n) ==
    LET idx == UNION {Increasing(k, 0, 9 * Len(W) - 1) : k \in 0..n}
        fwd == {[j \in 1..Len(s) |-> RowAt(W, s[j])] : s \in idx}
    IN  fwd \cup {Reverse(t) : t \in fwd}

StepIdle == pend = NoCall

NearIdle ==
    /\ query = <<0, 0>>
    /\ nearest = Unset

BuildIdle ==
    /\ ways = <<>>
    /\ df_segments = <<>>
    /\ G = EmptyGraph
    /\ csv = <<>>
    /\ bpc = [line |-> "idle", i |-> 0]

\* The csv files of datalink_output/ (twitter_incidents_ingest.py lines 35-36,
\* tomtom_incidents_ingest.py lines 33-35).
INPUT_CSV == "datalink_output/segments_features.csv"
BASE_CSV == "datalink_output/segments_features_enriched.csv"
FALLBACK_CSV == "datalink_output/segments_features.csv"
OUTPUT_CSV == "datalink_output/segments_features_enriched_tomtom.csv"

\* A path at which os.path.exists is false, and a file holding csv lines.
NoFile == [exists |-> FALSE, lines |-> <<>>]
File(lines) == [exists |-> TRUE, lines |-> lines]

\* tomtom_incidents_ingest.py lines 27 and 130: the key the file is shipped
\* with, which is also the text line 130 compares the key with.
ShippedKey == "<key of line 27>"

StageIdle ==
    /\ files = [p \in {BASE_CSV, FALLBACK_CSV, OUTPUT_CSV} |-> NoFile]
    /\ TOMTOM_API_KEY = ShippedKey
    /\ run = [next |-> "idle", csv_path |-> "none", fetch |-> "none"]

IngestIdle ==
    /\ segs = <<>>
    /\ setBy = <<>>
    /\ lastApp = [stage |-> "none", node |-> None, kinds |-> {}, touched |-> {}]
    /\ StepIdle
    /\ NearIdle
    /\ BuildIdle
    /\ StageIdle

\* The state in which a_star(graph, start, goal) is entered.
InitSearch(tables) ==
    /\ df \in tables
    /\ graph = BuildGraph(df)
    /\ start \in Nodes \cup {Absent}
    /\ goal \in Nodes \cup {Absent}
    /\ pc = "call"
    /\ open_set = <<>>
    /\ came_from = EmptyMap
    /\ g_score = EmptyMap
    /\ f_score = EmptyMap
    /\ path = <<>>
    /\ total = 0
    /\ pops = 0
    /\ lastPop = NoPop
    /\ IngestIdle

Init == InitSearch(Tables(Weights, MaxEdges))

SearchNext ==
    \/ (ReturnInvalid /\ UNCHANGED nonSearchVars)
    \/ (Begin /\ UNCHANGED nonSearchVars)
    \/ (PopGoal /\ UNCHANGED nonSearchVars)
    \/ (Expand /\ UNCHANGED nonSearchVars)
    \/ (Exhausted /\ UNCHANGED nonSearchVars)

Next == SearchNext

Spec == Init /\ [][Next]_vars

\* The three-edge example graph, its rows in any order.
ABCRows == {[from_node |-> "A", to_node |-> "B", weight |-> 1],
            [from_node |-> "B", to_node |-> "C", weight |-> 1],
            [from_node |-> "A", to_node |-> "C", weight |-> 5]}

ABCTables == {t \in [1..3 -> ABCRows] : {t[i] : i \in 1..3} = ABCRows}

InitABC == InitSearch(ABCTables)

SpecABC == InitABC /\ [][Next]_vars

\* The search under weak fairness: an enabled step of a_star is eventually
\* taken (the interpreter keeps running the call). The iterations followed are
\* capped; a run that is stopped by the cap has not returned.
InitLive == InitSearch(Tables(LiveWeights, MaxLiveEdges))

LiveNext ==
    \/ (ReturnInvalid /\ UNCHANGED nonSearchVars)
    \/ (Begin /\ UNCHANGED nonSearchVars)
    \/ (pops < MaxLivePops /\ PopGoal /\ UNCHANGED nonSearchVars)
    \/ (pops < MaxLivePops /\ Expand /\ UNCHANGED nonSearchVars)
    \/ (Exhausted /\ UNCHANGED nonSearchVars)

SpecLive == InitLive /\ [][LiveNext]_vars /\ WF_vars(LiveNext)

\* Larger graphs over two weights, in which a node with outgoing edges is
\* pushed twice before the goal is popped.
InitStale == InitSearch(Tables(StaleWeights, MaxStaleEdges))

SpecStale == InitStale /\ [][Next]_vars

\* Graphs in which some edges cost +infinity.
InitInf == InitSearch(Tables(InfWeights, MaxEdges))

SpecInf == InitInf /\ [][Next]_vars

\* Weights outside the cost contract. A negative cycle keeps the loop of
\* line 48 running for ever, so the iterations followed are capped.
InitBad == InitSearch(Tables(BadWeights, MaxBadEdges))

BadNext ==
    \/ (ReturnInvalid /\ UNCHANGED nonSearchVars)
    \/ (Begin /\ UNCHANGED nonSearchVars)
    \/ (pops < MaxPops /\ PopGoal /\ UNCHANGED nonSearchVars)
    \/ (pops < MaxPops /\ Expand /\ UNCHANGED nonSearchVars)
    \/ (Exhausted /\ UNCHANGED nonSearchVars)

SpecBad == InitBad /\ [][BadNext]_vars

----------------------------------------------------------------------------
(* Incident ingestion: tomtom_incidents_ingest.py, twitter_incidents_ingest.py *)

FlagNames == {"event_blocked", "vip_blocked", "closed_for_construction"}

\* twitter_incidents_ingest.py lines 94-96
EVENT_KEYWORDS == {"procession", "rally", "marathon", "festival", "event", "bandh"}
VIP_KEYWORDS == {"vip movement", "vip", "hon'ble", "prime minister", "president", "cm convoy"}
CLOSURE_KEYWORDS == {"closed", "road work", "construction", "repair", "maintenance",
                     "blocked", "diversion"}

\* classify_tweet_type; a text is the set of phrases that occur in it.
classify_tweet_type(text) ==
    [event   |-> text \cap EVENT_KEYWORDS # {},
     vip     |-> text \cap VIP_KEYWORDS # {},
     closure |-> text \cap CLOSURE_KEYWORDS # {}]

\* incident_type_from_icon_category; desc is the set of words of the description.
incident_type_from_icon_category(icon_cat, desc) ==
    IF desc \cap {"roadworks", "construction", "maintenance", "repair"} # {}
    THEN "roadworks"
    ELSE IF icon_cat \in {4, 5, 6, 7} THEN "roadworks"
    ELSE IF icon_cat \in {8, 9, 10} THEN "closure"
    ELSE "other"

\* Mutant: only the from_node column is compared.
MaskFromOnly(rows, node_id) ==
    {i \in 1..Len(rows) : rows[i].from_node = node_id}

\* mask = (df["from_node"] == node_id) | (df["to_node"] == node_id)
Mask(rows, node_id) ==
    {i \in 1..Len(rows) : rows[i].from_node = node_id \/ rows[i].to_node = node_id}

\* Mutant: the row's other block flags are reset.
SetFlagOverwrite(rows, mask, col) ==
    [i \in 1..Len(rows) |->
        IF i \in mask
        THEN [rows[i] EXCEPT !["event_blocked"] = (col = "event_blocked"),
                             !["vip_blocked"] = (col = "vip_blocked"),
                             !["closed_for_construction"] = (col = "closed_for_construction")]
        ELSE rows[i]]

\* df.loc[mask, col] = True
SetFlag(rows, mask, col) ==
    [i \in 1..Len(rows) |-> IF i \in mask THEN [rows[i] EXCEPT ![col] = TRUE] ELSE rows[i]]

\* tomtom_incidents_ingest.py lines 113-119: the column the incident type writes.
TomTomColumn(incident_type) ==
    IF incident_type = "roadworks" THEN "closed_for_construction"
    ELSE IF incident_type = "closure" THEN "event_blocked"
    ELSE "event_blocked"

\* Mutant: the table is cut down to the flagged rows (df = df[mask]).
TomTomApplyKeepTouched(rows, node_id, incident_type) ==
    LET mask == Mask(rows, node_id)
        flagged == SetFlag(rows, mask, TomTomColumn(incident_type))
    IN  IF mask = {} THEN rows
        ELSE SelectSeq(flagged, LAMBDA r : r.from_node = node_id \/ r.to_node = node_id)

\* tomtom_incidents_ingest.py apply_incident_to_segments. The table read by
\* main always has the three flag columns (datalink_pipeline.py lines 254-256
\* writes them), so lines 106-111, which add a missing column as all False,
\* leave it as it is.
TomTomApplyIncident(rows, node_id, incident_type) ==
    LET mask == Mask(rows, node_id)
    IN  IF mask = {} THEN rows
        ELSE SetFlag(rows, mask, TomTomColumn(incident_type))

\* twitter_incidents_ingest.py lines 204-209: the columns the flags dict writes.
TwitterColumns(incident_flags) ==
    (IF incident_flags.event THEN {"event_blocked"} ELSE {})
    \cup (IF incident_flags.vip THEN {"vip_blocked"} ELSE {})
    \cup (IF incident_flags.closure THEN {"closed_for_construction"} ELSE {})

\* Mutant: the three tests are chained with elif, only the first true flag is written.
TwitterApplyFirstOnly(rows, node_id, incident_flags) ==
    LET mask == Mask(rows, node_id)
    IN  IF mask = {} THEN rows
        ELSE IF incident_flags.event THEN SetFlag(rows, mask, "event_blocked")
        ELSE IF incident_flags.vip THEN SetFlag(rows, mask, "vip_blocked")
        ELSE IF incident_flags.closure THEN SetFlag(rows, mask, "closed_for_construction")
        ELSE rows

\* twitter_incidents_ingest.py apply_incident_to_segments
TwitterApplyIncident(rows, node_id, incident_flags) ==
    LET mask == Mask(rows, node_id)
        r1 == IF incident_flags.event THEN SetFlag(rows, mask, "event_blocked") ELSE rows
        r2 == IF incident_flags.vip THEN SetFlag(r1, mask, "vip_blocked") ELSE r1
        r3 == IF incident_flags.closure THEN SetFlag(r2, mask, "closed_for_construction") ELSE r2
    IN  IF mask = {} THEN rows ELSE r3

\* The kinds an incident flags dict stands for.
TrueKinds(incident_flags) == {k \in {"event", "vip", "closure"} : incident_flags[k]}

\* Bookkeeping: the columns earlier applications wrote on each row.
Record(sb, mask, cols) ==
    [i \in DOMAIN sb |-> IF i \in mask THEN sb[i] \cup cols ELSE sb[i]]

\* Inputs of the two feeds: (iconCategory, description words) of each class and
\* one whose description overrides the category; tweets with any of three keywords.
Incidents == {<<0, {"accident"}>>, <<5, {"accident"}>>, <<9, {"accident"}>>, <<9, {"repair"}>>}
Tweets == SUBSET {"rally", "vip", "closed"}

\* tomtom main, lines 248 and 267: one incident applied at a node id.
TomTomIncident ==
    \E node_id \in Nodes, inc \in Incidents :
        LET itype == incident_type_from_icon_category(inc[1], inc[2])
            mask == Mask(segs, node_id)
        IN  /\ segs' = TomTomApplyIncident(segs, node_id, itype)
            /\ setBy' = Record(setBy, mask, {TomTomColumn(itype)})
            /\ lastApp' = [stage |-> "tomtom", node |-> node_id, kinds |-> {itype},
                           touched |-> mask]

\* twitter main, lines 251-254 and 276: one classified tweet applied at a node id.
TwitterIncident ==
    \E node_id \in Nodes, text \in Tweets :
        LET flags == classify_tweet_type(text)
            mask == Mask(segs, node_id)
        IN  /\ flags.event \/ flags.vip \/ flags.closure
            /\ segs' = TwitterApplyIncident(segs, node_id, flags)
            /\ setBy' = Record(setBy, mask, TwitterColumns(flags))
            /\ lastApp' = [stage |-> "twitter", node |-> node_id, kinds |-> TrueKinds(flags),
                           touched |-> mask]

\* datalink_pipeline.py lines 230-256: a segment row as first written.
SegRow(u, v) ==
    [from_node |-> u, to_node |-> v, segment_id |-> 10 * Ord(u) + Ord(v),
     road_type |-> "unclassified", lane_count |-> 1, speed_limit_kph |-> 40,
     road_quality |-> 4, event_blocked |-> FALSE, vip_blocked |-> FALSE,
     closed_for_construction |-> FALSE]

\* The six rows that join two distinct nodes.
SegPairs == <<SegRow("A", "B"), SegRow("A", "C"), SegRow("B", "A"),
              SegRow("B", "C"), SegRow("C", "A"), SegRow("C", "B")>>

\* Edge tables of 1..n distinct rows, as the pipeline writes them (no flag set).
SegTables(n) ==
    {[j \in 1..Len(s) |-> SegPairs[s[j]]] : s \in UNION {Increasing(k, 1, 6) : k \in 1..n}}

SearchIdle ==
    /\ df = <<>>
    /\ graph = EmptyMap
    /\ start = Absent
    /\ goal = Absent
    /\ pc = "idle"
    /\ open_set = <<>>
    /\ came_from = EmptyMap
    /\ g_score = EmptyMap
    /\ f_score = EmptyMap
    /\ path = <<>>
    /\ total = 0
    /\ pops = 0
    /\ lastPop = NoPop

InitInc ==
    /\ segs \in SegTables(MaxSegs)
    /\ setBy = [i \in 1..Len(segs) |-> {}]
    /\ lastApp = [stage |-> "none", node |-> None, kinds |-> {}, touched |-> {}]
    /\ StepIdle
    /\ NearIdle
    /\ BuildIdle
    /\ StageIdle
    /\ SearchIdle

IncNext ==
    \/ (TomTomIncident /\ UNCHANGED nonIncVars)
    \/ (TwitterIncident /\ UNCHANGED nonIncVars)

SpecInc == InitInc /\ [][IncNext]_vars

----------------------------------------------------------------------------
(* Nearest node: build_node_table and find_nearest_node (the same code in   *)
(* tomtom_incidents_ingest.py and twitter_incidents_ingest.py).             *)
(* Coordinates are in units of 1e-6 degree, distances in millimetres.       *)

\* parse_node: the coordinates written in the node ids "0.0_-1e-06" (A),
\* "0.0_1e-06" (B) and "1e-06_0.0" (C).
parse_node(nid) ==
    CASE nid = "A" -> <<0, -1>>
      [] nid = "B" -> <<0, 1>>
      [] nid = "C" -> <<1, 0>>

Abs(x) == IF x < 0 THEN 0 - x ELSE x

\* haversine_meters on these coordinates: the values the function returns,
\* rounded to millimetres (0.111194926... m for one unit of latitude or of
\* longitude, the two being the same float).
haversine_meters(lat1, lon1, lat2, lon2) ==
    LET dlat == Abs(lat2 - lat1)
        dlon == Abs(lon2 - lon1)
    IN  CASE dlat = 0 /\ dlon = 0 -> 0
          [] dlat = 0 /\ dlon = 1 -> 111
          [] dlat = 1 /\ dlon = 0 -> 111
          [] dlat = 1 /\ dlon = 1 -> 157
          [] dlat = 0 /\ dlon = 2 -> 222
          [] dlat = 1 /\ dlon = 2 -> 249

\* The ids of seq in the order of their first occurrence (dict insertion order).
RECURSIVE FirstOccurrences(_, _, _)
FirstOccurrences(seq, i, acc) ==
    IF i > Len(seq) THEN acc
    ELSE FirstOccurrences(seq, i + 1,
             IF \E j \in 1..Len(acc) : acc[j] = seq[i] THEN acc ELSE Append(acc, seq[i]))

\* build_node_table: node id -> (lat, lon), from_node column first, then to_node.
build_node_table(rows) ==
    LET ids == FirstOccurrences(
                   [i \in 1..Len(rows) |-> rows[i].from_node]
                   \o [i \in 1..Len(rows) |-> rows[i].to_node], 1, <<>>)
    IN  [i \in 1..Len(ids) |->
            [nid |-> ids[i], lat |-> parse_node(ids[i])[1], lon |-> parse_node(ids[i])[2]]]

\* Mutant: a node at the same distance as the best so far replaces it.
NearestStepOrEqual(best, entry, lat, lon) ==
    LET d == haversine_meters(lat, lon, entry.lat, entry.lon)
    IN  IF FLessOrEqual(d, best.best_d) THEN [best_id |-> entry.nid, best_d |-> d] ELSE best

\* One iteration of the loop of find_nearest_node.
NearestStep(best, entry, lat, lon) ==
    LET d == haversine_meters(lat, lon, entry.lat, entry.lon)
    IN  IF FLess(d, best.best_d) THEN [best_id |-> entry.nid, best_d |-> d] ELSE best

RECURSIVE NearestFrom(_, _, _, _, _)
NearestFrom(nodes, i, best, lat, lon) ==
    IF i > Len(nodes) THEN best
    ELSE NearestFrom(nodes, i + 1, NearestStep(best, nodes[i], lat, lon), lat, lon)

find_nearest_node(nodes, lat, lon) ==
    NearestFrom(nodes, 1, [best_id |-> None, best_d |-> Inf], lat, lon).best_id

\* Incident positions asked about.
QueryPoints == {<<0, -1>>, <<0, 0>>, <<0, 1>>, <<1, -1>>, <<1, 0>>, <<1, 1>>}

\* main: node_id = find_nearest_node(nodes, lat, lon) over the loaded table.
FindNearest ==
    /\ nearest = Unset
    /\ nearest' = find_nearest_node(build_node_table(segs), query[1], query[2])
    /\ UNCHANGED <<astarVars, ingestVars, pend, query, buildVars, stageVars>>

InitNear ==
    /\ segs \in SegTables(MaxSegs) \cup {<<>>}
    /\ setBy = [i \in 1..Len(segs) |-> {}]
    /\ lastApp = [stage |-> "none", node |-> None, kinds |-> {}, touched |-> {}]
    /\ StepIdle
    /\ query \in QueryPoints
    /\ nearest = Unset
    /\ BuildIdle
    /\ StageIdle
    /\ SearchIdle

NearNext == FindNearest

SpecNear == InitNear /\ [][NearNext]_vars

----------------------------------------------------------------------------
(* apply_incident_to_segments statement by statement: the states an          *)
(* interruption of the call can leave behind. One df.loc[mask, col] = True   *)
(* is one step.                                                              *)

\* twitter lines 193-203: the mask is computed; an empty mask returns at once.
TwitterCall ==
    /\ pend = NoCall
    /\ \E node_id \in Nodes, text \in Tweets :
          LET flags == classify_tweet_type(text)
              mask == Mask(segs, node_id)
          IN  /\ flags.event \/ flags.vip \/ flags.closure
              /\ mask # {}
              /\ pend' = [line |-> "event", stage |-> "twitter", node |-> node_id,
                          flags |-> flags, cols |-> TwitterColumns(flags),
                          mask |-> mask, before |-> segs]
    /\ UNCHANGED segs

\* twitter lines 204-205.
TwitterEventLine ==
    /\ pend # NoCall
    /\ pend.line = "event"
    /\ segs' = IF pend.flags.event THEN SetFlag(segs, pend.mask, "event_blocked") ELSE segs
    /\ pend' = [pend EXCEPT !.line = "vip"]

\* twitter lines 206-207.
TwitterVipLine ==
    /\ pend # NoCall
    /\ pend.line = "vip"
    /\ segs' = IF pend.flags.vip THEN SetFlag(segs, pend.mask, "vip_blocked") ELSE segs
    /\ pend' = [pend EXCEPT !.line = "closure"]

\* twitter lines 208-209, after which the call returns.
TwitterClosureLine ==
    /\ pend # NoCall
    /\ pend.line = "closure"
    /\ segs' = IF pend.flags.closure
               THEN SetFlag(segs, pend.mask, "closed_for_construction") ELSE segs
    /\ pend' = NoCall

\* tomtom lines 101-111: the mask is computed; an empty mask returns at once.
TomTomCall ==
    /\ pend = NoCall
    /\ \E node_id \in Nodes, inc \in Incidents :
          LET itype == incident_type_from_icon_category(inc[1], inc[2])
              mask == Mask(segs, node_id)
          IN  /\ mask # {}
              /\ pend' = [line |-> "write", stage |-> "tomtom", node |-> node_id,
                          flags |-> itype, cols |-> {TomTomColumn(itype)},
                          mask |-> mask, before |-> segs]
    /\ UNCHANGED segs

\* tomtom lines 113-119: the one write, after which the call returns.
TomTomWriteLine ==
    /\ pend # NoCall
    /\ pend.line = "write"
    /\ segs' = SetFlag(segs, pend.mask, TomTomColumn(pend.flags))
    /\ pend' = NoCall

InitStep ==
    /\ segs \in SegTables(MaxSegs)
    /\ setBy = [i \in 1..Len(segs) |-> {}]
    /\ lastApp = [stage |-> "none", node |-> None, kinds |-> {}, touched |-> {}]
    /\ StepIdle
    /\ NearIdle
    /\ BuildIdle
    /\ StageIdle
    /\ SearchIdle

stepFrame == <<astarVars, setBy, lastApp, nearVars, buildVars, stageVars>>

StepNext ==
    \/ (TwitterCall /\ UNCHANGED stepFrame)
    \/ (TwitterEventLine /\ UNCHANGED stepFrame)
    \/ (TwitterVipLine /\ UNCHANGED stepFrame)
    \/ (TwitterClosureLine /\ UNCHANGED stepFrame)
    \/ (TomTomCall /\ UNCHANGED stepFrame)
    \/ (TomTomWriteLine /\ UNCHANGED stepFrame)

SpecStep == InitStep /\ [][StepNext]_vars

----------------------------------------------------------------------------
(* Road graph builder, datalink_pipeline.py: ways_to_segments_df.           *)
(* Coordinates are non-negative integers in units of 1e-7 degree. Scores    *)
(* are exact rationals written as integers in units of 1 / One.             *)

One == 1200000                  \* the score 1.0
NoTag == "<none>"               \* tags.get(key) of a key the way does not have
NoInt == [ok |-> FALSE, val |-> 0]      \* int(...) raised, the value is None

Min2(a, b) == IF a < b THEN a ELSE b

Max2(a, b) == IF a > b THEN a ELSE b

Clamp01(x) == Max2(Min2(x, One), 0)

\* int(str) on the tag values that occur; any other text raises ValueError.
ParseInt(str) ==
    CASE str = "1" -> [ok |-> TRUE, val |-> 1]
      [] str = "2" -> [ok |-> TRUE, val |-> 2]
      [] str = "3" -> [ok |-> TRUE, val |-> 3]
      [] str = "-20" -> [ok |-> TRUE, val |-> -20]
      [] str = "40" -> [ok |-> TRUE, val |-> 40]
      [] str = "60" -> [ok |-> TRUE, val |-> 60]
      [] str = "200" -> [ok |-> TRUE, val |-> 200]
      [] str = "-600" -> [ok |-> TRUE, val |-> -600]
      [] OTHER -> NoInt

\* str.split()[0] on the tag values that occur ("" raises IndexError, as
\* int("") raises ValueError: both end in the same except branch).
FirstWord(str) == IF str = "40 mph" THEN "40" ELSE str

\* Python's `a or b`: b when a is None or the empty string.
Or2(a, b) == IF a = NoTag \/ a = "" THEN b ELSE a

\* Lines 156-162.
lane_count(tags) ==
    LET lane_tag == Or2(Or2(tags.lanes, tags.lanes_forward), tags.lanes_backward)
    IN  IF lane_tag = NoTag THEN NoInt ELSE ParseInt(lane_tag)

\* Lines 164-168.
speed_limit_kph(tags) ==
    IF tags.maxspeed = NoTag THEN NoInt ELSE ParseInt(FirstWord(tags.maxspeed))

\* Line 171.
road_type(tags) == IF tags.highway = NoTag THEN "unclassified" ELSE tags.highway

\* Lines 112-123 and 174-175, in tenths.
surface_quality(tags) ==
    LET surface_type == IF tags.surface = NoTag THEN "unknown" ELSE tags.surface
    IN  CASE surface_type \in {"asphalt", "concrete"} -> 9
          [] surface_type = "paved" -> 8
          [] surface_type = "compacted" -> 7
          [] surface_type = "fine_gravel" -> 6
          [] surface_type = "gravel" -> 5
          [] surface_type \in {"ground", "unpaved"} -> 4
          [] surface_type = "dirt" -> 3
          [] surface_type = "sand" -> 2
          [] OTHER -> 5

\* Lines 125-135 and 184, in tenths.
foot_traffic_base_map(rt) ==
    CASE rt = "residential" -> 8
      [] rt = "living_street" -> 9
      [] rt = "tertiary" -> 7
      [] rt = "secondary" -> 5
      [] rt = "primary" -> 4
      [] rt = "trunk" -> 3
      [] rt = "motorway" -> 1
      [] rt = "unclassified" -> 5
      [] rt = "service" -> 6
      [] OTHER -> 4

\* Lines 137-146 and 190, in hundredths.
historical_congestion_base_map(rt) ==
    CASE rt = "motorway" -> 50
      [] rt = "trunk" -> 60
      [] rt = "primary" -> 70
      [] rt = "secondary" -> 60
      [] rt = "tertiary" -> 50
      [] rt = "residential" -> 40
      [] rt = "unclassified" -> 50
      [] rt = "service" -> 45
      [] OTHER -> 50

\* Lines 210-213.
base_quality(rt) ==
    CASE rt = "motorway" -> 10
      [] rt = "trunk" -> 8
      [] rt = "primary" -> 7
      [] rt = "secondary" -> 6
      [] rt = "tertiary" -> 5
      [] rt = "residential" -> 3
      [] rt = "unclassified" -> 4
      [] rt = "service" -> 4
      [] OTHER -> 4

\* Lines 186-187: min(base_foot * (0.8 + 0.05 * lane_factor), 1.0).
\* base/10 * (80 + 5 * lanes)/100 = base * (16 + lanes) / 200.
foot_traffic_score(tags) ==
    LET lc == lane_count(tags)
        lane_factor == IF lc.ok THEN lc.val ELSE 1
    IN  Min2(foot_traffic_base_map(road_type(tags)) * (16 + lane_factor) * (One \div 200), One)

\* Lines 192-193: min(spd, 120), the numerator of spd_factor.
spd_capped(tags) ==
    LET sl == speed_limit_kph(tags)
        spd == IF sl.ok THEN sl.val ELSE 40
    IN  Min2(spd, 120)

\* Line 194: max(min(hist_base * (0.7 + 0.6 * spd_factor), 1.0), 0.0).
\* base/100 * (0.7 + 0.6 * m/120) = base * (140 + m) / 20000.
historical_congestion(tags) ==
    Clamp01(historical_congestion_base_map(road_type(tags)) * (140 + spd_capped(tags))
            * (One \div 20000))

\* Line 214: base_quality + (lane_count if lane_count is not None else 0).
road_quality(tags) ==
    LET lc == lane_count(tags)
    IN  base_quality(road_type(tags)) + (IF lc.ok THEN lc.val ELSE 0)

\* Lines 218-221: (1 - surface_quality) * 0.6 + max(12 - quality, 0) / 12 * 0.4,
\* which is ((10 - sq) * 36 + max(12 - quality, 0) * 20) / 600.
pothole_risk(tags) ==
    Clamp01(((10 - surface_quality(tags)) * 36 + Max2(12 - road_quality(tags), 0) * 20)
            * (One \div 600))

\* Lines 224-227: 0.2 + 0.5 * spd_factor + 0.3 * historical_congestion.
accident_risk(tags) ==
    Clamp01(One \div 5 + spd_capped(tags) * (One \div 240)
            + (3 * historical_congestion(tags)) \div 10)

\* round(x, 6): to the nearest multiple of 1e-6 degree, a tie to the even one.
Round6(x) ==
    LET r == x % 10
        down == x - r
    IN  IF r < 5 THEN down
        ELSE IF r > 5 THEN down + 10
        ELSE IF (down \div 10) % 2 = 0 THEN down ELSE down + 10

\* Mutant: the key is written from the coordinate as fetched.
NodeKeyUnrounded(c) == <<c[1], c[2]>>

\* Lines 202-203: f"{round(lat, 6)}_{round(lon, 6)}", the two numbers the
\* string is written from.
NodeKey(c) == <<Round6(c[1]), Round6(c[2])>>

\* Lines 201-257: the row of the i-th consecutive pair of coordinates of w.
SegmentRow(w, i) ==
    LET lc == lane_count(w.tags)
        sl == speed_limit_kph(w.tags)
    IN  [from_node |-> NodeKey(w.coords[i]),
         to_node |-> NodeKey(w.coords[i + 1]),
         way_id |-> w.id,
         road_type |-> road_type(w.tags),
         lane_count |-> IF lc.ok THEN lc.val ELSE 1,
         speed_limit_kph |-> IF sl.ok THEN sl.val ELSE 40,
         road_quality |-> road_quality(w.tags),
         surface_quality |-> surface_quality(w.tags),
         foot_traffic_score |-> foot_traffic_score(w.tags),
         historical_congestion |-> historical_congestion(w.tags),
         pothole_risk |-> pothole_risk(w.tags),
         accident_risk |-> accident_risk(w.tags),
         event_blocked |-> FALSE,
         vip_blocked |-> FALSE,
         closed_for_construction |-> FALSE]

\* Lines 149-151 and 200: a way with fewer than two coordinates is skipped.
WayRows(w) ==
    IF Len(w.coords) < 2 THEN <<>>
    ELSE [i \in 1..(Len(w.coords) - 1) |-> SegmentRow(w, i)]

\* Lines 148-260: the rows of all the ways, in order.
RECURSIVE RowsFrom(_, _)
RowsFrom(ws, k) ==
    IF k > Len(ws) THEN <<>> ELSE WayRows(ws[k]) \o RowsFrom(ws, k + 1)

ways_to_segments_df(ws) == RowsFrom(ws, 1)

----------------------------------------------------------------------------
(* Road graph builder: build_graph_from_segments_df, export, run_pipeline   *)

\* G.has_node(u)
has_node(Gr, u) == \E k \in 1..Len(Gr.nodes) : Gr.nodes[k].id = u

\* Lines 271-276: a node that is not in G yet is added with the lat and lon
\* read back from its key.
add_node(Gr, u) ==
    IF has_node(Gr, u) THEN Gr
    ELSE [Gr EXCEPT !.nodes = Append(@, [id |-> u, lat |-> u[1], lon |-> u[2]])]

\* Lines 278-300: the attributes of the edge, from the row.
edge_attrs(r) ==
    [segment_id |-> r.way_id,
     road_type |-> r.road_type,
     lane_count |-> r.lane_count,
     speed_limit_kph |-> r.speed_limit_kph,
     road_quality |-> r.road_quality,
     surface_quality |-> r.surface_quality,
     foot_traffic_score |-> r.foot_traffic_score,
     historical_congestion |-> r.historical_congestion,
     pothole_risk |-> r.pothole_risk,
     accident_risk |-> r.accident_risk,
     event_blocked |-> r.event_blocked,
     vip_blocked |-> r.vip_blocked,
     closed_for_construction |-> r.closed_for_construction]

\* Line 301, DiGraph.add_edge: a graph of this class holds one edge per
\* (u, v); adding (u, v) again updates the attributes of the edge it has.
add_edge(Gr, u, v, attrs) ==
    IF \E k \in 1..Len(Gr.edges) : Gr.edges[k].u = u /\ Gr.edges[k].v = v
    THEN [Gr EXCEPT !.edges = [k \in 1..Len(@) |->
                                  IF @[k].u = u /\ @[k].v = v
                                  THEN [@[k] EXCEPT !.attrs = attrs] ELSE @[k]]]
    ELSE [Gr EXCEPT !.edges = Append(@, [u |-> u, v |-> v, attrs |-> attrs])]

\* Lines 268-301: one iteration of the loop over the rows.
AddSegmentRow(Gr, r) ==
    add_edge(add_node(add_node(Gr, r.from_node), r.to_node),
             r.from_node, r.to_node, edge_attrs(r))

\* G.edges(data=True): the edges of each node, nodes in insertion order.
RECURSIVE EdgesFrom(_, _)
EdgesFrom(Gr, k) ==
    IF k > Len(Gr.nodes) THEN <<>>
    ELSE SelectSeq(Gr.edges, LAMBDA e : e.u = Gr.nodes[k].id) \o EdgesFrom(Gr, k + 1)

\* Lines 307-316: one csv row per edge of G.
export_graph_edges_to_csv(Gr) ==
    LET es == EdgesFrom(Gr, 1)
    IN  [k \in 1..Len(es) |-> [from_node |-> es[k].u, to_node |-> es[k].v,
                                data |-> es[k].attrs]]

\* run_pipeline line 360.
ConvertWays ==
    /\ bpc.line = "segments"
    /\ df_segments' = ways_to_segments_df(ways)
    /\ G' = EmptyGraph
    /\ bpc' = [line |-> "graph", i |-> 1]
    /\ UNCHANGED <<ways, csv>>

\* run_pipeline line 362: one iteration of the loop of build_graph_from_segments_df.
AddSegment ==
    /\ bpc.line = "graph"
    /\ bpc.i <= Len(df_segments)
    /\ G' = AddSegmentRow(G, df_segments[bpc.i])
    /\ bpc' = [bpc EXCEPT !.i = @ + 1]
    /\ UNCHANGED <<ways, df_segments, csv>>

\* run_pipeline line 367, once the loop is over.
ExportEdges ==
    /\ bpc.line = "graph"
    /\ bpc.i > Len(df_segments)
    /\ csv' = export_graph_edges_to_csv(G)
    /\ bpc' = [line |-> "done", i |-> bpc.i]
    /\ UNCHANGED <<ways, df_segments, G>>

\* Coordinates as fetched: the first two are less than 1e-6 degree apart in
\* latitude, the third differs from the first in longitude.
Points == {<<0, 0>>, <<4, 0>>, <<0, 6>>}

CoordSeqs(n) == UNION {[1..k -> Points] : k \in 0..n}

PlainTags == [lanes |-> NoTag, lanes_forward |-> NoTag, lanes_backward |-> NoTag,
              maxspeed |-> NoTag, highway |-> NoTag, surface |-> NoTag]

LaneTags == [PlainTags EXCEPT !.lanes = "2", !.highway = "residential"]

TagSets ==
    [lanes : {NoTag, "2", "-20", "two"},
     lanes_forward : {NoTag, "3"},
     lanes_backward : {NoTag, "1"},
     maxspeed : {NoTag, "60", "200", "-600", "40 mph", "fast"},
     highway : {NoTag, "residential", "motorway", "living_street", "footway"},
     surface : {NoTag, "asphalt", "sand"}]

\* Two ways of any coordinates, and one way of two coordinates with any tags.
RouteWays(n) ==
    {<<[id |-> 1, tags |-> PlainTags, coords |-> c1],
       [id |-> 2, tags |-> LaneTags, coords |-> c2]>> : c1, c2 \in CoordSeqs(n)}

TaggedWays ==
    {<<[id |-> 1, tags |-> t, coords |-> << <<0, 0>>, <<0, 6>> >>]>> : t \in TagSets}

InitBuild ==
    /\ ways \in RouteWays(MaxCoords) \cup TaggedWays
    /\ df_segments = <<>>
    /\ G = EmptyGraph
    /\ csv = <<>>
    /\ bpc = [line |-> "segments", i |-> 0]
    /\ segs = <<>>
    /\ setBy = <<>>
    /\ lastApp = [stage |-> "none", node |-> None, kinds |-> {}, touched |-> {}]
    /\ StepIdle
    /\ NearIdle
    /\ SearchIdle
    /\ StageIdle

buildFrame == <<astarVars, ingestVars, pend, nearVars, stageVars>>

BuildNext ==
    \/ (ConvertWays /\ UNCHANGED buildFrame)
    \/ (AddSegment /\ UNCHANGED buildFrame)
    \/ (ExportEdges /\ UNCHANGED buildFrame)

SpecBuild == InitBuild /\ [][BuildNext]_vars

----------------------------------------------------------------------------
(* Reference notions the properties are stated with; computed from the rows *)
(* of the edge table alone, independently of a_star.                        *)

HasEdge(rows, u, v) ==
    \E i \in 1..Len(rows) : rows[i].from_node = u /\ rows[i].to_node = v

SetMin(S) == CHOOSE x \in S : \A y \in S : x <= y

\* Cheapest cost from s to every node over walks of at most k edges (Inf: none).
RECURSIVE Dist(_, _, _)
Dist(rows, s, k) ==
    IF k = 0 THEN [n \in Nodes \cup {Absent} |-> IF n = s THEN 0 ELSE Inf]
    ELSE LET d == Dist(rows, s, k - 1)
         IN  [n \in Nodes \cup {Absent} |->
                 SetMin({d[n]} \cup
                        {d[rows[i].from_node] + rows[i].weight :
                            i \in {j \in 1..Len(rows) :
                                     rows[j].to_node = n /\ d[rows[j].from_node] # Inf}})]

MinCost(rows, s, t) == Dist(rows, s, Cardinality(Nodes))[t]

Reachable(rows, s, t) == MinCost(rows, s, t) # Inf

AllPositive(rows) == \A i \in 1..Len(rows) : rows[i].weight > 0 /\ rows[i].weight < Inf

IsCompletePath(rows, p, s, t) ==
    /\ Len(p) >= 1
    /\ p[1] = s
    /\ p[Len(p)] = t
    /\ \A i \in 1..(Len(p) - 1) : HasEdge(rows, p[i], p[i + 1])

Returned == pc = "done"

----------------------------------------------------------------------------
(* Properties of the search *)

\* C1: for all-positive finite weights and source, goal in the node set with
\* goal reachable from source, a_star returns a path whose total cost is the
\* minimum cost over all source-to-goal paths.
C1_OptimalCost ==
    (Returned /\ AllPositive(df) /\ start \in NodeSet(df) /\ goal \in NodeSet(df)
       /\ Reachable(df, start, goal))
    => (path # NoPath /\ total = MinCost(df, start, goal))

\* C2: on the graph A->B 1, B->C 1, A->C 5, a_star(graph, A, C) returns the
\* path [A, B, C] with total cost 2.
C2_ABCExample ==
    (Returned /\ ABCRows = {df[i] : i \in 1..Len(df)} /\ start = "A" /\ goal = "C")
    => (path = <<"A", "B", "C">> /\ total = 2)

\* C3: for every node src of the node set, also one that only occurs as a
\* destination, a_star(graph, src, src) returns [src] with total cost 0.
C3_SourceIsGoal ==
    (Returned /\ start = goal /\ start \in NodeSet(df))
    => (path = <<start>> /\ total = 0)

\* C4: if source or goal is not a node of the graph, a_star returns the
\* no-path result with cost 0 at once: it never enters the loop, pops nothing.
C4_AbsentNodeNoPath ==
    (start \notin NodeSet(df) \/ goal \notin NodeSet(df))
    => /\ pc \in {"call", "done"}
       /\ pops = 0
       /\ open_set = <<>>
       /\ (Returned => path = NoPath /\ total = 0)

C4_Witness ==
    /\ Returned
    /\ start \in NodeSet(df)
    /\ goal \notin NodeSet(df)
    /\ path = NoPath

\* C5: if source and goal are nodes of the graph and goal is not reachable
\* from source along directed edges, a_star returns the no-path result, with
\* the frontier empty and without the goal ever having been popped.
C5_UnreachableNoPath ==
    (start \in NodeSet(df) /\ goal \in NodeSet(df) /\ ~Reachable(df, start, goal))
    => /\ pc # "diverged"
       /\ lastPop.kind # "goal"
       /\ (Returned => path = NoPath /\ total = 0 /\ open_set = <<>>)

C5_Witness ==
    /\ Returned
    /\ start \in NodeSet(df) /\ goal \in NodeSet(df)
    /\ ~Reachable(df, start, goal)
    /\ pops >= 2
    /\ path = NoPath

\* C6: every result of a_star is the no-path sentinel or a complete path from
\* source to goal along directed edges of the graph, never a partial path.
C6_NoPartialPath ==
    Returned => (path = NoPath \/ IsCompletePath(df, path, start, goal))

C6_Witness ==
    /\ Returned
    /\ Len(path) = 3
    /\ IsCompletePath(df, path, start, goal)

BadWeight(w) == w < 0 \/ w = NaN

\* C7: when the weight of some edge is negative or NaN, the core rejects it
\* instead of running the search and returning a path and a total cost
\* computed from that weight: no returned path runs along such an edge.
C7_RejectsBadWeight ==
    (Returned /\ path # NoPath)
    => \A i \in 1..(Len(path) - 1) : \A j \in 1..Len(df) :
          (df[j].from_node = path[i] /\ df[j].to_node = path[i + 1])
          => ~BadWeight(df[j].weight)

----------------------------------------------------------------------------
(* Properties of the incident applicators *)

Touches(row, node_id) == row.from_node = node_id \/ row.to_node = node_id

Touching(rows, node_id) == {i \in 1..Len(rows) : Touches(rows[i], node_id)}

SameEdge(r1, r2) == r1.from_node = r2.from_node /\ r1.to_node = r2.to_node

AnyFlag(row) == row.event_blocked \/ row.vip_blocked \/ row.closed_for_construction

\* C8: an application at node_id sets a block flag on every edge whose
\* from_node or to_node is node_id and changes no other edge; when no edge
\* touches node_id the table is unchanged.
C8_TouchingOnly ==
    [][/\ Len(segs') = Len(segs)
       /\ \A i \in 1..Len(segs) :
            IF Touches(segs[i], lastApp'.node)
            THEN SameEdge(segs'[i], segs[i]) /\ AnyFlag(segs'[i])
            ELSE segs'[i] = segs[i]]_vars

C8_Witness ==
    /\ lastApp.stage # "none"
    /\ Touching(segs, lastApp.node) # {}
    /\ \A i \in Touching(segs, lastApp.node) : AnyFlag(segs[i])
    /\ \E j \in 1..Len(segs) : ~Touches(segs[j], lastApp.node) /\ ~AnyFlag(segs[j])

\* C9: block flags are monotonic under any sequence of applications of either
\* stage: a flag that is true stays true, and the flags of an edge are the
\* union of the flags written by the applications that touched it.
C9_MonotoneUnion ==
    /\ [](\A i \in 1..Len(segs) : \A c \in FlagNames : segs[i][c] <=> c \in setBy[i])
    /\ [][\A i \in 1..Len(segs) : \A c \in FlagNames : segs[i][c] => segs'[i][c]]_vars

C9_Witness ==
    /\ lastApp.stage = "tomtom"
    /\ lastApp.kinds = {"roadworks"}
    /\ \E i \in Touching(segs, lastApp.node) :
         /\ segs[i].vip_blocked
         /\ segs[i].closed_for_construction
         /\ ~segs[i].event_blocked

\* The mapping as the claim states it.
ClaimedFlag(k) ==
    CASE k = "roadworks" -> "closed_for_construction"
      [] k = "closure" -> "event_blocked"
      [] k = "other" -> "event_blocked"
      [] k = "vip" -> "vip_blocked"
      [] k = "event" -> "event_blocked"

\* C10 as stated: each application sets exactly one flag on the touching
\* edges, chosen by roadworks -> closed_for_construction, closure ->
\* event_blocked, other -> event_blocked, vip -> vip_blocked, event ->
\* event_blocked, for both applicators.
C10_OneFlagFixedMapping ==
    [][\A i \in 1..Len(segs) :
         Touches(segs[i], lastApp'.node)
         => \E k \in lastApp'.kinds :
              \A c \in FlagNames : segs'[i][c] = (segs[i][c] \/ c = ClaimedFlag(k))]_vars

\* The flags an application writes, per applicator.
AppliedFlags(stage, kinds) ==
    IF stage = "tomtom"
    THEN {ClaimedFlag(k) : k \in kinds}
    ELSE {CASE k = "event" -> "event_blocked"
            [] k = "vip" -> "vip_blocked"
            [] k = "closure" -> "closed_for_construction" : k \in kinds}

\* With(row, flags): row with the flags of the set switched on.
With(row, flags) ==
    [row EXCEPT !["event_blocked"] = @ \/ "event_blocked" \in flags,
                !["vip_blocked"] = @ \/ "vip_blocked" \in flags,
                !["closed_for_construction"] = @ \/ "closed_for_construction" \in flags]

\* C10 amended: each application sets on the touching edges exactly the flags
\* of its applicator's mapping and no other: TomTom one flag (roadworks ->
\* closed_for_construction, closure -> event_blocked, other -> event_blocked),
\* Twitter one flag per true classification (event -> event_blocked, vip ->
\* vip_blocked, closure -> closed_for_construction), so one to three flags.
C10_PerApplicatorMapping ==
    [][LET a == lastApp'
       IN  /\ a.stage = "tomtom" =>
                 Cardinality(a.kinds) = 1 /\ a.kinds \subseteq {"roadworks", "closure", "other"}
           /\ a.stage = "twitter" =>
                 a.kinds # {} /\ a.kinds \subseteq {"event", "vip", "closure"}
           /\ AppliedFlags(a.stage, a.kinds) # {}
           /\ \A i \in 1..Len(segs) :
                Touches(segs[i], a.node)
                => segs'[i] = With(segs[i], AppliedFlags(a.stage, a.kinds))]_vars

C10_Witness ==
    /\ lastApp.stage = "twitter"
    /\ lastApp.kinds = {"vip", "closure"}
    /\ \E i \in Touching(segs, lastApp.node) :
         /\ segs[i].closed_for_construction
         /\ segs[i].vip_blocked
         /\ ~segs[i].event_blocked

----------------------------------------------------------------------------
\* Some row joins u to v with a finite weight.
FiniteEdge(rows, u, v) ==
    \E i \in 1..Len(rows) :
        rows[i].from_node = u /\ rows[i].to_node = v /\ rows[i].weight # Inf

\* The node whose outgoing edges the running iteration relaxes.
Current == Head(open_set)[2]

\* Node n got a new cost or a new predecessor in this step.
Relaxed(n) ==
    \/ Get(g_score', n, Inf) # Get(g_score, n, Inf)
    \/ Get(came_from', n, None) # Get(came_from, n, None)

\* C17: an edge whose cost is +infinity is never relaxed: whenever a loop
\* iteration gives a node a new cost or predecessor, it does so along a row
\* of finite weight and the new cost is finite; no returned path has a step
\* that only infinite rows join, and every returned total is finite.
C17_InfiniteEdgeNeverUsed ==
    /\ [](Returned /\ path # NoPath =>
            /\ total # Inf
            /\ \A i \in 1..(Len(path) - 1) : FiniteEdge(df, path[i], path[i + 1]))
    /\ [][pc = "loop" /\ open_set # <<>> =>
            \A n \in Nodes :
                Relaxed(n) => /\ FiniteEdge(df, Current, n)
                              /\ g_score'[n] # Inf
                              /\ came_from'[n] = Current]_vars

\* A path is returned although the search expanded a node with an infinite
\* outgoing edge.
C17_Witness ==
    /\ Returned
    /\ path # NoPath
    /\ Len(path) >= 2
    /\ \E i \in 1..Len(df) : df[i].from_node = path[1] /\ df[i].weight = Inf

----------------------------------------------------------------------------
\* C18: for finite non-negative costs every call of a_star returns: the loop
\* of line 48 ends (goal popped or frontier empty) and the predecessor walk of
\* line 52 ends, on graphs with cycles and with zero-cost cycles too.
C18_Terminates == <>(pc = "done")

\* a_star has returned a path on a graph with a zero-cost two-cycle through
\* start, after walking around part of it.
C18_Witness ==
    /\ Returned
    /\ pops >= 2
    /\ path # NoPath
    /\ \E i, j \in 1..Len(df) :
          /\ df[i].from_node = start /\ df[i].to_node # start /\ df[i].weight = 0
          /\ df[j].from_node = df[i].to_node /\ df[j].to_node = start
          /\ df[j].weight = 0

----------------------------------------------------------------------------
----------------------------------------------------------------------------
\* C20: with non-negative costs, a loop iteration that pops a stale entry (its
\* priority exceeds the cost now recorded for its node) changes no g score and
\* no predecessor and pushes nothing; and when goal is popped, the popped
\* priority equals g_score[goal], which is the total returned.
C20_StalePopsAreNoOps ==
    /\ [](lastPop.kind = "goal" =>
            /\ lastPop.f = lastPop.g
            /\ Returned => total = lastPop.f)
    /\ [][(/\ pc = "loop"
           /\ open_set # <<>>
           /\ Current # goal
           /\ Head(open_set)[1] > Get(g_score, Current, Inf))
          => /\ g_score' = g_score
             /\ came_from' = came_from
             /\ open_set' = Tail(open_set)]_vars

\* The last iteration popped a stale entry of a node that has outgoing edges.
C20_Witness ==
    /\ lastPop.kind = "expand"
    /\ lastPop.f > lastPop.g
    /\ lastPop.node \in DOMAIN graph

----------------------------------------------------------------------------
\* Distance from the asked position to the i-th node of the node table.
DistTo(nodes, i) == haversine_meters(query[1], query[2], nodes[i].lat, nodes[i].lon)

\* C14: find_nearest_node returns None exactly when the node table is empty;
\* otherwise it returns a node of the table at minimal distance from the asked
\* position, and among nodes at that same minimal distance the one that comes
\* first in the table's iteration order.
C14_NearestFirstMinimal ==
    nearest # Unset =>
        LET nodes == build_node_table(segs)
        IN  /\ nearest = None <=> nodes = <<>>
            /\ nodes # <<>> =>
                  \E i \in 1..Len(nodes) :
                      /\ nodes[i].nid = nearest
                      /\ \A j \in 1..Len(nodes) : DistTo(nodes, i) <= DistTo(nodes, j)
                      /\ \A j \in 1..(i - 1) : DistTo(nodes, i) < DistTo(nodes, j)

\* A node was returned although a later node of the table is equally near.
C14_Witness ==
    /\ nearest \notin {Unset, None}
    /\ LET nodes == build_node_table(segs)
       IN  \E i, j \in 1..Len(nodes) :
               /\ i < j
               /\ nodes[i].nid = nearest
               /\ DistTo(nodes, i) = DistTo(nodes, j)

----------------------------------------------------------------------------
\* C16: incident application is all-or-nothing: in every state in which a
\* call of apply_incident_to_segments has started and not yet returned, either
\* the edge table is as it was when the call started, or every edge touching
\* the node carries every flag the incident sets.
C16_AllOrNothing ==
    pend # NoCall =>
        \/ segs = pend.before
        \/ \A i \in pend.mask : \A c \in pend.cols : segs[i][c]

----------------------------------------------------------------------------
Built == bpc.line = "done"

\* The edges of G that carry the id of way w.
EdgesOfWay(w) == {k \in 1..Len(G.edges) : G.edges[k].attrs.segment_id = w.id}

\* C11: the graph built from the rows of the ways holds exactly
\* len(coordinates) - 1 directed edges for every way that has at least two
\* coordinates, and no edge for a way with fewer (such a way is skipped).
C11_EdgesPerWay ==
    Built =>
        \A k \in 1..Len(ways) :
            Cardinality(EdgesOfWay(ways[k])) =
                IF Len(ways[k].coords) >= 2 THEN Len(ways[k].coords) - 1 ELSE 0

----------------------------------------------------------------------------
\* C12: the builder does not deduplicate parallel edges: when rows of two
\* distinct ways join the same (from_node, to_node) pair, the built graph and
\* the edge table exported from it each hold two separate edges for the pair,
\* one carrying the way id and attributes of each row.
C12_ParallelEdgesKept ==
    Built =>
        \A i, j \in 1..Len(df_segments) :
            (/\ df_segments[i].from_node = df_segments[j].from_node
             /\ df_segments[i].to_node = df_segments[j].to_node
             /\ df_segments[i].way_id # df_segments[j].way_id)
            => /\ \E k \in 1..Len(G.edges) :
                     /\ G.edges[k].u = df_segments[i].from_node
                     /\ G.edges[k].v = df_segments[i].to_node
                     /\ G.edges[k].attrs = edge_attrs(df_segments[i])
               /\ \E k \in 1..Len(csv) :
                     /\ csv[k].from_node = df_segments[i].from_node
                     /\ csv[k].to_node = df_segments[i].to_node
                     /\ csv[k].data = edge_attrs(df_segments[i])

----------------------------------------------------------------------------
\* The coordinates of the ways that are turned into rows.
UsedCoords ==
    UNION {{ways[k].coords[i] : i \in 1..Len(ways[k].coords)} :
              k \in {j \in 1..Len(ways) : Len(ways[j].coords) >= 2}}

\* The nodes of G that stand at the rounded position of coordinate c.
NodesAt(c) ==
    {k \in 1..Len(G.nodes) :
        G.nodes[k].lat = Round6(c[1]) /\ G.nodes[k].lon = Round6(c[2])}

----------------------------------------------------------------------------
InUnitInterval(x) == 0 <= x /\ x <= One

\* C15: for every way and every tag mapping (any integer-parseable lanes or
\* maxspeed, negative ones too) the derived foot_traffic_score,
\* historical_congestion, pothole_risk and accident_risk of every row lie
\* within [0, 1].
C15_ScoresInUnitInterval ==
    \A i \in 1..Len(df_segments) :
        /\ InUnitInterval(df_segments[i].foot_traffic_score)
        /\ InUnitInterval(df_segments[i].historical_congestion)
        /\ InUnitInterval(df_segments[i].pothole_risk)
        /\ InUnitInterval(df_segments[i].accident_risk)

----------------------------------------------------------------------------
\* The weights of the rows that join u to v.
EdgeCosts(rows, u, v) ==
    {rows[i].weight : i \in {j \in 1..Len(rows) :
                                rows[j].from_node = u /\ rows[j].to_node = v}}

\* Sum over the consecutive pairs of p, from position i on, of the cheapest
\* edge cost of the pair (Inf when no row joins a pair).
RECURSIVE CheapestSum(_, _, _)
CheapestSum(rows, p, i) ==
    IF i >= Len(p) THEN 0
    ELSE IF EdgeCosts(rows, p[i], p[i + 1]) = {} THEN Inf
    ELSE FAdd(SetMin(EdgeCosts(rows, p[i], p[i + 1])), CheapestSum(rows, p, i + 1))

\* C21: whenever a_star returns a path (non-negative costs, parallel edges
\* allowed), the returned total equals the sum over the consecutive pairs of
\* the path of the cheapest edge cost between the pair; and at the time of
\* return every node with a predecessor has the g score of its predecessor
\* plus the cost of an edge from the predecessor to it.
C21_TotalIsSumOfCheapest ==
    Returned /\ path # NoPath =>
        /\ total = CheapestSum(df, path, 1)
        /\ \A n \in DOMAIN came_from :
              g_score[n] - g_score[came_from[n]] \in EdgeCosts(df, came_from[n], n)

\* A path is returned one of whose steps is joined by two rows of different
\* cost.
C21_Witness ==
    /\ Returned
    /\ path # NoPath
    /\ \E i \in 1..(Len(path) - 1) :
          Cardinality(EdgeCosts(df, path[i], path[i + 1])) >= 2

----------------------------------------------------------------------------
\* The columns of a row other than the three block flags.
OtherColumns(row) == (DOMAIN row) \ FlagNames

\* C22: under any sequence of incident applications the edge set is fixed: no
\* row is added or removed and every row keeps its from_node, its to_node and
\* every column other than the three block flags.
C22_EdgeSetFixed ==
    [][/\ Len(segs') = Len(segs)
       /\ \A i \in 1..Len(segs) :
            /\ DOMAIN segs'[i] = DOMAIN segs[i]
            /\ \A c \in OtherColumns(segs[i]) : segs'[i][c] = segs[i][c]]_vars

\* Applications of both stages have flagged an edge, beside an edge that
\* carries no flag.
C22_Witness ==
    /\ lastApp.stage = "twitter"
    /\ \E i \in 1..Len(segs) : segs[i].closed_for_construction /\ segs[i].event_blocked
    /\ \E j \in 1..Len(segs) : ~AnyFlag(segs[j])

----------------------------------------------------------------------------
\* C23: the road_quality of every emitted segment is the base quality of its
\* road classification (4 for a classification outside the table) plus the
\* lane_count recorded in the same row, which is the parsed lanes tag, or 1
\* when the tag is missing or unparseable.
C23_QualityIsBasePlusLanes ==
    \A i \in 1..Len(df_segments) :
        df_segments[i].road_quality =
            base_quality(df_segments[i].road_type) + df_segments[i].lane_count

----------------------------------------------------------------------------
(* The staged run: twitter_incidents_ingest.py, then                       *)
(* tomtom_incidents_ingest.py, then astar.py, each a program of its own    *)
(* that reads the csv file the one before it wrote.                        *)

\* astar.py line 8: the file the search loads.
DATA_FILE == "datalink_output/segments_features_enriched_tomtom.csv"

\* The columns pandas holds as int64.
IntColumns == {"segment_id", "lane_count", "speed_limit_kph", "road_quality"}

\* DataFrame.to_csv(index=False): a bool cell is written as True or False, an
\* integer cell in decimal, a text cell as it is.
to_csv(rows) ==
    [i \in 1..Len(rows) |->
        [c \in DOMAIN rows[i] |->
            IF c \in FlagNames THEN (IF rows[i][c] THEN "True" ELSE "False")
            ELSE IF c \in IntColumns THEN ToString(rows[i][c])
            ELSE rows[i][c]]]

\* pd.read_csv: a column of True/False cells is read as bool, a column of
\* decimal cells as int64 (the integers that occur in these columns are 1, 4,
\* 40 and the segment ids), any other column as text.
read_csv(lines) ==
    [i \in 1..Len(lines) |->
        [c \in DOMAIN lines[i] |->
            IF c \in FlagNames THEN lines[i][c] = "True"
            ELSE IF c \in IntColumns
            THEN CHOOSE n \in {1, 4, 40} \cup {10 * a + b : a, b \in 1..3} :
                     ToString(n) = lines[i][c]
            ELSE lines[i][c]]]

\* Sequences over S of length at most n.
SeqsUpTo(S, n) == UNION {[1..k -> S] : k \in 0..n}

\* A tweet without a location hint or whose hint geocode_place could not
\* resolve.
NoGeo == <<>>

\* The tweets get_recent_tweets returns: text and what geocode_place makes of it.
TweetFeed == [text : Tweets, geo : {<<0, -1>>, <<1, 0>>, NoGeo}]

\* The incidents of a TomTom response: (iconCategory, description) and the
\* points extract_incident_points finds (none, a Point, a LineString).
IncidentFeed ==
    [kind : Incidents,
     pts : {<<>>, << <<0, -1>> >>, << <<1, 0>> >>, << <<0, -1>>, <<1, 0>> >>}]

\* twitter main, lines 245-280: the loop over the tweets.
RECURSIVE ApplyTweets(_, _, _, _)
ApplyTweets(rows, nodes, tweets, i) ==
    IF i > Len(tweets) THEN rows
    ELSE LET flags == classify_tweet_type(tweets[i].text)
         IN  IF ~(flags.event \/ flags.vip \/ flags.closure) \/ tweets[i].geo = NoGeo
             THEN ApplyTweets(rows, nodes, tweets, i + 1)
             ELSE LET node_id == find_nearest_node(nodes, tweets[i].geo[1], tweets[i].geo[2])
                  IN  IF node_id = None
                      THEN ApplyTweets(rows, nodes, tweets, i + 1)
                      ELSE ApplyTweets(TwitterApplyIncident(rows, node_id, flags),
                                       nodes, tweets, i + 1)

\* twitter main as a whole. The shipped bearer token passes the test of
\* line 217. get_user_id and get_recent_tweets call requests.get without a
\* try: a request that raises ends the program, as a missing user id does,
\* before the output is written.
TwitterMain ==
    /\ run.next = "twitter"
    /\ \E feed \in {"raised", "no user id", "tweets"},
          tweets \in SeqsUpTo(TweetFeed, MaxIncidents) :
         /\ feed # "tweets" => tweets = <<>>
         /\ IF ~files[INPUT_CSV].exists \/ feed # "tweets"
            THEN files' = files
            ELSE LET loaded == read_csv(files[INPUT_CSV].lines)
                     nodes == build_node_table(loaded)
                 IN  files' = [files EXCEPT
                         ![BASE_CSV] = File(to_csv(ApplyTweets(loaded, nodes, tweets, 1)))]
    /\ run' = [run EXCEPT !.next = "tomtom"]
    /\ UNCHANGED TOMTOM_API_KEY

\* What requests.get does: it raises (no connection, timeout), or it returns
\* a response with a status and, for 200, incidents.
Responses ==
    {[status |-> "raised", incidents |-> <<>>], [status |-> "500", incidents |-> <<>>]}
    \cup {[status |-> "200", incidents |-> s] : s \in SeqsUpTo(IncidentFeed, MaxIncidents)}

\* fetch_tomtom_incidents, lines 125-157: how the call ends and what it returns.
fetch_tomtom_incidents(key, resp) ==
    IF key = "" \/ key = ShippedKey
    THEN [outcome |-> "no key", incidents |-> <<>>]
    ELSE IF resp.status = "raised"
    THEN [outcome |-> "raised", incidents |-> <<>>]
    ELSE IF resp.status # "200"
    THEN [outcome |-> "status", incidents |-> <<>>]
    ELSE [outcome |-> IF resp.incidents = <<>> THEN "empty" ELSE "incidents",
          incidents |-> resp.incidents]

\* tomtom main, lines 242-268: the loop over the incidents; the point used is
\* the middle one of the geometry.
RECURSIVE ApplyIncidents(_, _, _, _)
ApplyIncidents(rows, nodes, incidents, i) ==
    IF i > Len(incidents) THEN rows
    ELSE LET inc == incidents[i]
             itype == incident_type_from_icon_category(inc.kind[1], inc.kind[2])
         IN  IF inc.pts = <<>>
             THEN ApplyIncidents(rows, nodes, incidents, i + 1)
             ELSE LET mid == inc.pts[(Len(inc.pts) \div 2) + 1]
                      nid == find_nearest_node(nodes, mid[1], mid[2])
                  IN  IF nid = None
                      THEN ApplyIncidents(rows, nodes, incidents, i + 1)
                      ELSE ApplyIncidents(TomTomApplyIncident(rows, nid, itype),
                                          nodes, incidents, i + 1)

\* tomtom main as a whole: pick the input, load it, fetch, apply, save. An
\* exception of requests.get is caught nowhere and ends the program.
TomTomMain ==
    /\ run.next = "tomtom"
    /\ \E resp \in Responses :
         LET csv_path == IF files[BASE_CSV].exists THEN BASE_CSV
                         ELSE IF files[FALLBACK_CSV].exists THEN FALLBACK_CSV
                         ELSE "none"
         IN  IF csv_path = "none"
             THEN /\ files' = files
                  /\ run' = [next |-> "search", csv_path |-> "none", fetch |-> "none"]
             ELSE LET loaded == read_csv(files[csv_path].lines)
                      nodes == build_node_table(loaded)
                      got == fetch_tomtom_incidents(TOMTOM_API_KEY, resp)
                  IN  /\ run' = [next |-> "search", csv_path |-> csv_path,
                                 fetch |-> got.outcome]
                      /\ IF got.outcome = "raised"
                         THEN files' = files
                         ELSE IF got.incidents = <<>>
                         THEN files' = [files EXCEPT ![OUTPUT_CSV] = File(to_csv(loaded))]
                         ELSE files' = [files EXCEPT ![OUTPUT_CSV] =
                                  File(to_csv(ApplyIncidents(loaded, nodes, got.incidents, 1)))]
    /\ UNCHANGED TOMTOM_API_KEY

\* run_pipeline has written segments_features.csv; OUTPUT_CSV is missing or
\* left over from an earlier run (one C -> B row); the key is the shipped one
\* or one put in its place, as the CONFIG section asks.
InitStage ==
    /\ \E t \in SegTables(MaxSegs), old \in {NoFile, File(to_csv(<<SegRow("C", "B")>>))} :
         files = [p \in {BASE_CSV, FALLBACK_CSV, OUTPUT_CSV} |-> IF p = FALLBACK_CSV THEN File(to_csv(t))
                                  ELSE IF p = OUTPUT_CSV THEN old ELSE NoFile]
    /\ TOMTOM_API_KEY \in {ShippedKey, "key"}
    /\ run = [next |-> "twitter", csv_path |-> "none", fetch |-> "none"]
    /\ segs = <<>>
    /\ setBy = <<>>
    /\ lastApp = [stage |-> "none", node |-> None, kinds |-> {}, touched |-> {}]
    /\ StepIdle
    /\ NearIdle
    /\ BuildIdle
    /\ SearchIdle

StageNext ==
    \/ (TwitterMain /\ UNCHANGED <<astarVars, ingestVars, pend, nearVars, buildVars>>)
    \/ (TomTomMain /\ UNCHANGED <<astarVars, ingestVars, pend, nearVars, buildVars>>)

SpecStage == InitStage /\ [][StageNext]_vars

\* The TomTom program has ended, having found an input to load.
TomTomEnded == run.next = "search" /\ run.csv_path # "none"

\* C24: when the TomTom stage has run, the table the search loads has the
\* same edges as the table the stage loaded and every block flag true in that
\* input is true in it; and when the fetch failed or returned no incidents it
\* equals the input table.
C24_TomTomKeepsTable ==
    TomTomEnded =>
        /\ files[DATA_FILE].exists
        /\ LET in == read_csv(files[run.csv_path].lines)
               out == read_csv(files[DATA_FILE].lines)
           IN  /\ Len(out) = Len(in)
               /\ \A i \in 1..Len(in) :
                    /\ SameEdge(out[i], in[i])
                    /\ \A c \in FlagNames : in[i][c] => out[i][c]
               /\ run.fetch \in {"no key", "raised", "status", "empty"} => out = in

====
